---- MODULE Spec2Model ----
(***************************************************************************)
(* Three classes, each with its own specification: MartingaleStrategy      *)
(* (Spec, SpecAnyConfig), ChanAndSmaCombinedStrategy (SpecSBX, and with    *)
(* the engine SpecSignals) and OKXDataFetcher (SpecFetcher, SpecFetchLoop).*)
(* A behaviour holds the objects of one of them; the others stay idle.     *)
(*                                                                         *)
(* MartingaleStrategy (src/Martingel.py): the layered position engine.     *)
(*                                                                         *)
(* The engine object is the record `engine`; every method is an operator   *)
(* from the object (and its arguments) to what the method returns and the  *)
(* object it leaves behind.  run's loop is one action per bar (RunBar).    *)
(*                                                                         *)
(* Numbers.  Python floats are modelled as exact rationals:                *)
(*   - volatilities x, y are integers in basis points (1 bp = 0.0001);     *)
(*   - prices are integers; entry_price, total_profit and total_loss are   *)
(*     fractions <<numerator, denominator>> with a positive denominator;   *)
(*   - position sizes are integers in units of the schedule's smallest     *)
(*     step (position_list = [0.5, 0.5] is <<1, 1>>).                      *)
(* Thresholds are compared by cross-multiplication, so no rounding occurs. *)
(*                                                                         *)
(* Rows.  The DataFrame has MaxBars rows with the default RangeIndex, so   *)
(* the label i that iterrows yields is the row's position.  The content of *)
(* row i (close, MA13, MA120) is drawn when the loop reaches it: run never *)
(* reads a row ahead of i.                                                 *)
(*                                                                         *)
(* Exceptions.  A Python exception that leaves a method is the method's    *)
(* result ("NameError", "IndexError", "ZeroDivisionError"); it ends run    *)
(* with pc = "raised" and the object as it was when the exception rose.    *)
(***************************************************************************)
EXTENDS Integers, Sequences, FiniteSets

\* ------------------------------------------------------------- bounds
\* Rows of the DataFrame handed to the constructor.
MaxBars == 7

\* ---------------------------------------------------------- constants
\* 0.01 in basis points: the volatility gate of check_entry_condition and
\* the fixed first-layer take-profit step of calculate_take_profit.
OnePercent == 100
\* 1.0 in basis points.
Unit == 100 * OnePercent
\* 0.5 in basis points: the loss cap of check_stop_loss.
LossCap == 50 * OnePercent

\* ------------------------------------------------------------- inputs
\* Close prices of the rows.
Prices == {97, 100, 103}
\* Prices of direct add_position calls.
CallPrices == {100, 103}
\* Values of the MA13 column.
MA13Vals == {1, 2}
\* Values of the MA120 column; NaN is the undefined mean of a short window.
NaN == 0 - 1
MA120Vals == {NaN, 1, 2}
\* (x, y) pairs in basis points.  The 1h buckets nest in the 4h buckets, so
\* y <= x.  x = 100 is the gate's boundary (x <= 0.01).
VolPairs == {<<100, 50>>, <<300, 100>>, <<300, 200>>}
\* Layer schedules: leverage_list and position_list, same length, positive.
Schedules ==
    { [leverage_list |-> <<1, 2>>, position_list |-> <<1, 1>>],
      [leverage_list |-> <<2, 3>>, position_list |-> <<1, 2>>] }
\* Row labels a direct add_position call writes its open_signal to.
CallIndex == {0}

BarIdx == 0 .. (MaxBars - 1)

VARIABLES
    engine,         \* the MartingaleStrategy object's mutable fields
    x, y,           \* self.x, self.y: the volatility snapshot (basis points)
    leverage_list,  \* self.leverage_list
    position_list,  \* self.position_list
    MA13,           \* df['MA13'] of the rows iterated so far (row i is MA13[i+1])
    pc,             \* "new" | "running" | "done" | "raised"
    i,              \* rows run has consumed
    fills,          \* add_position calls since the position was last 0
    last,           \* the row run processed last, the object before it, what happened
    marks,          \* rows at which a position was added, rows at which one was closed
    sbx,            \* a ChanAndSmaCombinedStrategy, its input frame and its result
    heap,           \* the rows of every live DataFrame object, by object id
    fetcher,        \* the OKXDataFetcher object and the calls in progress on it
    snapshot        \* what get_cleaned_data returned and the engine built on it

engineVars == <<engine, x, y, leverage_list, position_list, MA13, pc, i, fills, last, marks>>
fetchVars == <<heap, fetcher, snapshot>>
vars == <<engineVars, sbx, fetchVars>>

\* ---------------------------------------------------------- fractions
Frac(n) == <<n, 1>>
FracEq(a, b) == a[1] * b[2] = b[1] * a[2]
FracAdd(a, b) == <<a[1] * b[2] + b[1] * a[2], a[2] * b[2]>>
\* a fraction minus an integer, and an integer minus a fraction
FracSubInt(a, n) == <<a[1] - n * a[2], a[2]>>
IntSubFrac(n, a) == <<n * a[2] - a[1], a[2]>>
\* p / q for fractions p, q with q > 0
FracDiv(p, q) == <<p[1] * q[2], p[2] * q[1]>>
\* fraction a >= fraction t of basis points (denominators are positive)
FracGeBp(a, t) == a[1] * Unit * t[2] >= t[1] * a[2]
Min(a, b) == IF a <= b THEN a ELSE b
Max(a, b) == IF a >= b THEN a ELSE b

\* ------------------------------------------------------- construction
\* __init__: the signal columns are 0 on every row, the position is flat.
NewEngine ==
    [ position      |-> 0,
      entry_price   |-> Frac(0),
      total_loss    |-> Frac(0),
      total_profit  |-> Frac(0),
      current_layer |-> 0,
      direction     |-> "None",
      open_signal   |-> [k \in BarIdx |-> 0],
      close_signal  |-> [k \in BarIdx |-> 0] ]

NoBar ==
    [ idx |-> -1, close |-> 0, ma13 |-> 0, ma120 |-> NaN,
      pre |-> NewEngine, slope |-> "notcalled", event |-> "none" ]

\* No row has been marked yet.
NoMarks == [added |-> {}, closed |-> {}]

\* The other two classes of the repository, while no object of them exists.
NoStrategy == [stage |-> "off", windows |-> <<1, 1, 1>>, close |-> <<>>, out |-> <<>>]
ObjIds == {1, 2, 3, 4}
EmptyHeap == [o \in ObjIds |-> <<>>]
NoPre == [none |-> TRUE, rows |-> <<>>]
NoCall ==
    [ op |-> "none", outcome |-> "none", row |-> <<>>, pre |-> NoPre,
      count |-> 0, fails |-> 0 ]
NoFetcher ==
    [ pc |-> "off", df |-> 0, all_data |-> <<>>, retry |-> 0, fails |-> 0,
      thread |-> FALSE, latest |-> <<>>, lastop |-> NoCall ]
NoSnapshot == [data |-> 0, taken |-> <<>>, engine |-> 0, built |-> <<>>, i |-> 0]

Init ==
    /\ engine = NewEngine
    /\ \E v \in VolPairs : x = v[1] /\ y = v[2]
    /\ \E s \in Schedules :
          /\ leverage_list = s.leverage_list
          /\ position_list = s.position_list
    /\ MA13 = <<>>
    /\ pc = "new"
    /\ i = 0
    /\ fills = <<>>
    /\ last = NoBar
    /\ marks = NoMarks
    /\ sbx = NoStrategy
    /\ heap = EmptyHeap
    /\ fetcher = NoFetcher
    /\ snapshot = NoSnapshot

\* ------------------------------------------------------------ methods
\* check_entry_condition(row).  With x <= 0.01 line 34 evaluates the name i,
\* which the method does not define: NameError.  Otherwise line 35 returns
\* False; it is not inside the if, so lines 37-51 (the second gate and the
\* MA13/MA120 trend check that assigns self.direction) are never executed.
check_entry_condition(self, row) ==
    IF x <= OnePercent
    THEN [ret |-> "NameError", self |-> self]
    ELSE [ret |-> "False", self |-> self]

\* min((1 / 2) * self.x, self.y) in basis points, as a fraction
volatility_factor == <<Min(x, 2 * y), 2>>

\* calculate_stop_loss(layer): a fraction of basis points
calculate_stop_loss(layer) ==
    <<volatility_factor[1] * leverage_list[layer + 1], volatility_factor[2]>>

\* calculate_take_profit(layer): a fraction of basis points
calculate_take_profit(layer) ==
    IF layer = 0
    THEN <<leverage_list[layer + 1] * OnePercent, 1>>
    ELSE <<volatility_factor[1] * leverage_list[layer + 1], volatility_factor[2]>>

\* add_position with line 66 subtracting the new layer's size.
add_position_subtracts(self, price, layer, index) ==
    LET new_position == position_list[layer + 1]
        total == self.position + new_position
        n == self.entry_price[1]
        d == self.entry_price[2]
    IN  IF total = 0
        THEN [ret |-> "ZeroDivisionError", self |-> self]
        ELSE [ret |-> "None",
              self |-> [self EXCEPT
                  !.entry_price = <<n * self.position + price * new_position * d, d * total>>,
                  !.position = self.position - new_position,
                  !.current_layer = layer,
                  !.open_signal[index] = IF self.direction = "long" THEN 1 ELSE -1]]

\* add_position with line 65 averaging the old entry price and the new price
\* without their sizes.
add_position_unweighted(self, price, layer, index) ==
    LET new_position == position_list[layer + 1]
        total == self.position + new_position
        n == self.entry_price[1]
        d == self.entry_price[2]
    IN  IF total = 0
        THEN [ret |-> "ZeroDivisionError", self |-> self]
        ELSE [ret |-> "None",
              self |-> [self EXCEPT
                  !.entry_price = <<n + price * d, 2 * d>>,
                  !.position = self.position + new_position,
                  !.current_layer = layer,
                  !.open_signal[index] = IF self.direction = "long" THEN 1 ELSE -1]]

\* add_position with line 68 writing open_signal one row below `index`.
add_position_marks_next_row(self, price, layer, index) ==
    LET new_position == position_list[layer + 1]
        total == self.position + new_position
        n == self.entry_price[1]
        d == self.entry_price[2]
    IN  IF total = 0
        THEN [ret |-> "ZeroDivisionError", self |-> self]
        ELSE [ret |-> "None",
              self |-> [self EXCEPT
                  !.entry_price = <<n * self.position + price * new_position * d, d * total>>,
                  !.position = self.position + new_position,
                  !.current_layer = layer,
                  !.open_signal[index + 1] = IF self.direction = "long" THEN 1 ELSE -1]]

\* add_position with line 67 storing layer + 1.
add_position_layer_off_by_one(self, price, layer, index) ==
    LET new_position == position_list[layer + 1]
        total == self.position + new_position
        n == self.entry_price[1]
        d == self.entry_price[2]
    IN  IF total = 0
        THEN [ret |-> "ZeroDivisionError", self |-> self]
        ELSE [ret |-> "None",
              self |-> [self EXCEPT
                  !.entry_price = <<n * self.position + price * new_position * d, d * total>>,
                  !.position = self.position + new_position,
                  !.current_layer = layer + 1,
                  !.open_signal[index] = IF self.direction = "long" THEN 1 ELSE -1]]

\* add_position(price, layer, index): the weighted average entry price, the
\* position, the layer and the row's open_signal.  A zero total position
\* makes line 65 divide by zero, before any field is assigned.
add_position(self, price, layer, index) ==
    LET new_position == position_list[layer + 1]
        total == self.position + new_position
        n == self.entry_price[1]
        d == self.entry_price[2]
    IN  IF total = 0
        THEN [ret |-> "ZeroDivisionError", self |-> self]
        ELSE [ret |-> "None",
              self |-> [self EXCEPT
                  !.entry_price = IF total > 0
                                  THEN <<n * self.position + price * new_position * d,
                                         d * total>>
                                  ELSE <<0 - (n * self.position + price * new_position * d),
                                         0 - (d * total)>>,
                  !.position = self.position + new_position,
                  !.current_layer = layer,
                  !.open_signal[index] = IF self.direction = "long" THEN 1 ELSE -1]]

\* s.iloc[-k] of a Series s: IndexError when k > len(s)
IlocBack(s, k) == s[Len(s) - k + 1]

\* check_slope_reversal(ma13_series): line 74 reads iloc[-7], which a series
\* of exactly 6 values does not have.
check_slope_reversal(ma13_series) ==
    IF Len(ma13_series) < 6 THEN "False"
    ELSE IF Len(ma13_series) < 7 THEN "IndexError"
    ELSE IF (IlocBack(ma13_series, 1) - IlocBack(ma13_series, 6))
            * (IlocBack(ma13_series, 2) - IlocBack(ma13_series, 7)) < 0
         THEN "True" ELSE "False"

\* (price - entry_price) / entry_price, and its negation
Gain(self, price) == FracDiv(IntSubFrac(price, self.entry_price), self.entry_price)
Drop(self, price) == FracDiv(FracSubInt(self.entry_price, price), self.entry_price)

\* check_take_profit(price): every direction but 'long' takes the short branch
check_take_profit(self, price) ==
    LET profit == IF self.direction = "long" THEN Gain(self, price) ELSE Drop(self, price)
        target_profit == calculate_take_profit(self.current_layer)
    IN  FracGeBp(profit, target_profit)

\* check_stop_loss(price)
check_stop_loss(self, price) ==
    LET loss == IF self.direction = "long" THEN Drop(self, price) ELSE Gain(self, price)
        target_loss == calculate_stop_loss(self.current_layer)
    IN  FracGeBp(loss, target_loss) \/ FracGeBp(self.total_loss, <<LossCap, 1>>)

\* recent_ma13 = self.df['MA13'].iloc[max(0, i-5):i+1], row k being col[k+1]
recent_ma13(col, k) == SubSeq(col, Max(0, k - 5) + 1, k + 1)

\* ---------------------------------------------------------------- run
\* One iteration of run's for loop, lines 88-112, on row `row` at label k
\* with recent = recent_ma13: the object it leaves, how the iteration ends
\* ("next": the loop goes on, "break": line 112, or the exception raised) and
\* what it did.  Python's `and` evaluates check_slope_reversal only when the
\* check before it is true.
run_iteration(self, row, k, recent) ==
    LET price == row.close
    IN  IF self.position = 0
        THEN LET c == check_entry_condition(self, row)
             IN  IF c.ret = "NameError"
                 THEN [self |-> c.self, exit |-> "NameError", event |-> "raise",
                       slope |-> "notcalled"]
                 ELSE IF c.ret = "True"
                 THEN LET a == add_position(c.self, price, 0, k)
                      IN  IF a.ret = "ZeroDivisionError"
                          THEN [self |-> a.self, exit |-> a.ret, event |-> "raise",
                                slope |-> "notcalled"]
                          ELSE [self |-> a.self, exit |-> "next", event |-> "entry",
                                slope |-> "notcalled"]
                 ELSE [self |-> c.self, exit |-> "next", event |-> "none",
                       slope |-> "notcalled"]
        ELSE LET tp == check_take_profit(self, price)
                 sl == check_stop_loss(self, price)
                 sr == check_slope_reversal(recent)
             IN  IF tp /\ sr = "IndexError"
                 THEN [self |-> self, exit |-> sr, event |-> "raise", slope |-> sr]
                 ELSE IF tp /\ sr = "True"
                 THEN [self |-> [self EXCEPT
                                   !.close_signal[k] = 1,
                                   !.total_profit =
                                       FracAdd(self.total_profit,
                                               IntSubFrac(price, self.entry_price)),
                                   !.position = 0,
                                   !.current_layer = 0],
                       exit |-> "next", event |-> "take_profit", slope |-> sr]
                 ELSE IF sl /\ sr = "IndexError"
                 THEN [self |-> self, exit |-> sr, event |-> "raise", slope |-> sr]
                 ELSE IF sl /\ sr = "True"
                 THEN IF self.current_layer < Len(leverage_list) - 1
                      THEN LET a == add_position(self, price, self.current_layer + 1, k)
                           IN  IF a.ret = "ZeroDivisionError"
                               THEN [self |-> a.self, exit |-> a.ret, event |-> "raise",
                                     slope |-> sr]
                               ELSE [self |-> a.self, exit |-> "next", event |-> "add",
                                     slope |-> sr]
                      ELSE [self |-> [self EXCEPT
                                        !.close_signal[k] = 1,
                                        !.position = 0,
                                        !.current_layer = 0],
                            exit |-> "break", event |-> "liquidate", slope |-> sr]
                 ELSE [self |-> self, exit |-> "next", event |-> "none",
                       slope |-> IF tp \/ sl THEN sr ELSE "notcalled"]

\* The adds of the open position after an iteration that did `event` at `price`.
FillsAfter(event, price, layer) ==
    CASE event \in {"entry", "add"} -> Append(fills, [price |-> price, layer |-> layer])
      [] event \in {"take_profit", "liquidate"} -> <<>>
      [] OTHER -> fills

\* The rows marked after an iteration that did `event` at row k.
MarksAfter(event, k) ==
    CASE event \in {"entry", "add"} -> [marks EXCEPT !.added = @ \cup {k}]
      [] event \in {"take_profit", "liquidate"} -> [marks EXCEPT !.closed = @ \cup {k}]
      [] OTHER -> marks

\* The engine's owner calls run().
StartRun ==
    /\ pc = "new"
    /\ pc' = "running"
    /\ UNCHANGED <<engine, x, y, leverage_list, position_list, MA13, i, fills, last, marks>>
    /\ UNCHANGED <<sbx, fetchVars>>

\* The MA120 values a row can hold when run reaches it.  Only the flat branch
\* (check_entry_condition) is handed the row's MA120, so a row met with a
\* position open leaves it undrawn.
RowMA120(self) == IF self.position = 0 THEN MA120Vals ELSE {NaN}

\* The for loop of run takes the next row and executes its body.
RunBar ==
    /\ pc = "running"
    /\ i < MaxBars
    /\ \E close \in Prices, ma13 \in MA13Vals, ma120 \in RowMA120(engine) :
          LET row == [close |-> close, MA13 |-> ma13, MA120 |-> ma120]
              col == Append(MA13, ma13)
              r   == run_iteration(engine, row, i, recent_ma13(col, i))
          IN  /\ MA13' = col
              /\ engine' = r.self
              /\ fills' = FillsAfter(r.event, close, r.self.current_layer)
              /\ marks' = MarksAfter(r.event, i)
              /\ last' = [idx |-> i, close |-> close, ma13 |-> ma13, ma120 |-> ma120,
                          pre |-> engine, slope |-> r.slope, event |-> r.event]
              /\ i' = i + 1
              /\ pc' = IF r.exit \in {"NameError", "IndexError", "ZeroDivisionError"}
                       THEN "raised"
                       ELSE IF r.exit = "break" \/ i + 1 = MaxBars
                       THEN "done"
                       ELSE "running"
    /\ UNCHANGED <<x, y, leverage_list, position_list>>
    /\ UNCHANGED <<sbx, fetchVars>>

\* Before run, the engine's owner calls the public method add_position the
\* way run's own call sites do: layer 0 while flat (line 93), the next layer
\* while a position is open below the last layer (line 106).  It is the only
\* way a position comes to exist: check_entry_condition never returns True.
CallAddPosition ==
    /\ pc = "new"
    /\ \E price \in CallPrices, index \in CallIndex :
          LET layer == IF engine.position = 0 THEN 0 ELSE engine.current_layer + 1
          IN  /\ layer <= Len(position_list) - 1
              /\ LET a == add_position(engine, price, layer, index)
                 IN  /\ engine' = a.self
                     /\ pc' = IF a.ret = "ZeroDivisionError" THEN "raised" ELSE pc
                     /\ fills' = IF a.ret = "ZeroDivisionError" THEN fills
                                 ELSE Append(fills, [price |-> price, layer |-> layer])
                     /\ marks' = IF a.ret = "ZeroDivisionError" THEN marks
                                 ELSE MarksAfter("add", index)
    /\ UNCHANGED <<x, y, leverage_list, position_list, MA13, i, last>>
    /\ UNCHANGED <<sbx, fetchVars>>

Next == CallAddPosition \/ StartRun \/ RunBar

Spec == Init /\ [][Next]_vars

\* ------------------------------------------------------- what a row met
\* run has processed at least one row; `last` describes the latest.
BarProcessed == last.idx >= 0
\* The latest row was met with a position open.
WasOpen == BarProcessed /\ last.pre.position # 0
\* The favorable move at the latest row was at least take_profit(current_layer).
TakeProfitReached == WasOpen /\ check_take_profit(last.pre, last.close)
\* The adverse move at the latest row was at least stop_loss(current_layer).
AdverseMoveReached ==
    /\ WasOpen
    /\ FracGeBp(IF last.pre.direction = "long"
                THEN Drop(last.pre, last.close) ELSE Gain(last.pre, last.close),
                calculate_stop_loss(last.pre.current_layer))
\* Slope reversal at row t as the specification defines it:
\* (MA13[t] - MA13[t-5]) * (MA13[t-1] - MA13[t-6]) < 0, row k being MA13[k+1].
SlopeReversed(t) ==
    /\ t >= 6
    /\ t < Len(MA13)
    /\ (MA13[t + 1] - MA13[t - 4]) * (MA13[t] - MA13[t - 5]) < 0
\* +1 for a long position, -1 otherwise, as add_position writes it.
Sign(dir) == IF dir = "long" THEN 1 ELSE -1
LastLayer == Len(leverage_list) - 1

RECURSIVE SumSize(_)
\* position_list[0] + ... + position_list[n-1]
SumSize(n) == IF n = 0 THEN 0 ELSE SumSize(n - 1) + position_list[n]

RECURSIVE SumValue(_)
\* the sum of price_k * position_list[k] over the first n adds of the position
SumValue(n) == IF n = 0 THEN 0 ELSE SumValue(n - 1) + fills[n].price * position_list[n]

\* ------------------------------------------------------------- claims

\* C1: a row met flat with x > 0.01 and MA13 # MA120 opens layer 0: direction
\* long if MA13 > MA120 and short if MA13 < MA120, position = position_list[0],
\* current_layer = 0, entry_price = close, open_signal = +1 / -1 on that row.
C1_EntryFromFlat ==
    ( /\ BarProcessed
      /\ last.pre.position = 0
      /\ x > OnePercent
      /\ last.ma120 # NaN
      /\ last.ma13 # last.ma120 )
    => /\ engine.direction = (IF last.ma13 > last.ma120 THEN "long" ELSE "short")
       /\ engine.position = position_list[1]
       /\ engine.current_layer = 0
       /\ FracEq(engine.entry_price, Frac(last.close))
       /\ engine.open_signal[last.idx] = (IF last.ma13 > last.ma120 THEN 1 ELSE -1)

\* C2: with positive position_list entries, position >= 0 in every state (so
\* after every row run processes), and position = 0 exactly when the engine
\* is flat: no layer has been added since construction or the last close.
C2_PositionNonNegative ==
    /\ engine.position >= 0
    /\ (engine.position = 0) <=> (fills = <<>>)

\* C2's case: run has processed a row with a position open and went on.
C2_Witness ==
    /\ BarProcessed
    /\ last.event = "none"
    /\ engine.position > 0
    /\ pc = "running"

\* C3: after any add_position the layers of the open position are layers
\* 0..current_layer in order, and entry_price is their weighted average
\* sum(price_k * position_list[k]) / sum(position_list[k]).
C3_EntryPriceWeightedAverage ==
    engine.position # 0 =>
        /\ Len(fills) = engine.current_layer + 1
        /\ \A k \in 1 .. Len(fills) : fills[k].layer = k - 1
        /\ engine.entry_price[1] * SumSize(Len(fills))
               = SumValue(Len(fills)) * engine.entry_price[2]

\* C3's case: two layers of different sizes added at different prices.
C3_Witness ==
    /\ Len(fills) = 2
    /\ fills[1].price # fills[2].price
    /\ position_list[1] # position_list[2]
    /\ engine.current_layer = 1
    /\ ~FracEq(engine.entry_price, Frac(fills[1].price))
    /\ ~FracEq(engine.entry_price, Frac(fills[2].price))

\* The latest row is one at which the specification's state machine closes
\* with a profit: position open, favorable move reached, slope reversal
\* confirmed at that row and at no row before it.
TakeProfitConfirmed ==
    /\ TakeProfitReached
    /\ SlopeReversed(last.idx)
    /\ \A j \in 0 .. (last.idx - 1) : ~SlopeReversed(j)

\* The latest row is one at which the stop-loss is confirmed: position open,
\* take-profit not reached, adverse move reached, slope reversal confirmed.
StopLossConfirmed ==
    /\ WasOpen
    /\ ~TakeProfitReached
    /\ AdverseMoveReached
    /\ SlopeReversed(last.idx)

C5_TakeProfitSigned ==
    TakeProfitConfirmed =>
        LET realized == IF last.pre.direction = "long"
                        THEN IntSubFrac(last.close, last.pre.entry_price)
                        ELSE FracSubInt(last.pre.entry_price, last.close)
            before == last.pre.total_profit
            after == engine.total_profit
        IN  /\ FracEq(after, FracAdd(before, realized))
            /\ after[1] * before[2] >= before[1] * after[2]

C7_MartingaleAdd ==
    StopLossConfirmed =>
        IF last.pre.current_layer < LastLayer
        THEN /\ engine.current_layer = last.pre.current_layer + 1
             /\ engine.position
                    = last.pre.position + position_list[last.pre.current_layer + 2]
             /\ engine.open_signal[last.idx] = Sign(engine.direction)
             /\ engine.close_signal[last.idx] = 0
        ELSE /\ engine.close_signal[last.idx] = 1
             /\ engine.position = 0
             /\ engine.open_signal[last.idx] = last.pre.open_signal[last.idx]

\* C8: a row met with a position open and total_loss >= 0.5 is a forced
\* liquidation at whatever layer (close_signal = 1, position and layer reset,
\* run over, nothing added); total_loss never decreases, and being the
\* cumulative realized loss it grows when a liquidation realizes one.
C8_LossCap ==
    /\ (WasOpen /\ FracGeBp(last.pre.total_loss, <<LossCap, 1>>))
       => /\ engine.close_signal[last.idx] = 1
          /\ engine.position = 0
          /\ engine.current_layer = 0
          /\ pc = "done"
          /\ engine.open_signal[last.idx] = last.pre.open_signal[last.idx]
    /\ BarProcessed =>
          engine.total_loss[1] * last.pre.total_loss[2]
              >= last.pre.total_loss[1] * engine.total_loss[2]
    /\ (StopLossConfirmed /\ last.pre.current_layer = LastLayer)
       => engine.total_loss[1] * last.pre.total_loss[2]
              > last.pre.total_loss[1] * engine.total_loss[2]

\* C9: check_slope_reversal as run calls it at row t returns False with fewer
\* than 6 rows of history (t < 5), and with enough history (t >= 6) returns,
\* without raising, True exactly when
\* (MA13[t] - MA13[t-5]) * (MA13[t-1] - MA13[t-6]) < 0.
C9_SlopeReversalValue ==
    (BarProcessed /\ last.slope # "notcalled") =>
        /\ last.idx < 5 => last.slope = "False"
        /\ last.idx >= 6 =>
              last.slope = (IF SlopeReversed(last.idx) THEN "True" ELSE "False")

\* C10: at the first row where the favorable move reaches
\* take_profit(current_layer) and slope reversal is confirmed, run closes:
\* close_signal = 1 on that row, position and current_layer are 0 after it,
\* and no earlier row has close_signal = 1.
C10_TakeProfitTiming ==
    TakeProfitConfirmed =>
        /\ engine.close_signal[last.idx] = 1
        /\ engine.position = 0
        /\ engine.current_layer = 0
        /\ \A j \in 0 .. (last.idx - 1) : engine.close_signal[j] = 0

\* ------------------------------------------------- any layer schedule
\* __init__ stores position_list as it is given (lines 7-8): schedules with
\* an entry <= 0 construct an engine like any other.
BadSchedules ==
    { [leverage_list |-> <<1, 2>>, position_list |-> <<0, 1>>],
      [leverage_list |-> <<1, 2>>, position_list |-> <<1, -1>>] }

\* The engine after construction with any schedule, positive or not.
InitAnyConfig ==
    /\ engine = NewEngine
    /\ \E v \in VolPairs : x = v[1] /\ y = v[2]
    /\ \E s \in Schedules \cup BadSchedules :
          /\ leverage_list = s.leverage_list
          /\ position_list = s.position_list
    /\ MA13 = <<>>
    /\ pc = "new"
    /\ i = 0
    /\ fills = <<>>
    /\ last = NoBar
    /\ marks = NoMarks
    /\ sbx = NoStrategy
    /\ heap = EmptyHeap
    /\ fetcher = NoFetcher
    /\ snapshot = NoSnapshot

SpecAnyConfig == InitAnyConfig /\ [][Next]_vars

\* Some entry of position_list is <= 0.
InvalidLayerConfig == \E k \in 1 .. Len(position_list) : position_list[k] <= 0
\* An add_position call raised ZeroDivisionError at line 65.  Before run
\* starts nothing else raises; run's own add_position calls are never reached.
DividedByZero == pc = "raised" /\ ~BarProcessed

\* C11: an engine whose position_list has an entry <= 0 is rejected with
\* InvalidLayerConfigError before it holds a position or processes a row, and
\* no add_position call divides by a zero total position.
C11_ConfigGuard ==
    /\ InvalidLayerConfig =>
          /\ pc \in {"new", "rejected"}
          /\ engine.position = 0
          /\ ~BarProcessed
    /\ ~DividedByZero

(***************************************************************************)
(* ChanAndSmaCombinedStrategy (src/SBX_strategy.py).                       *)
(*                                                                         *)
(* generate_signals is a pure function of the frame's close column and the *)
(* three windows.  Bars are numbered from 1.  A float is a fraction        *)
(* <<numerator, denominator>>; the denominator 0 marks NaN, and every      *)
(* comparison with NaN is false, as in pandas.  A column is an operator of *)
(* the bar number; generate_signals collects the columns into the rows of  *)
(* the frame it returns.                                                   *)
(***************************************************************************)
\* Rows of the frame handed to generate_signals.
MaxCloses == 6
\* Values of the close column.
Closes == {1, 2, 3}
\* (short_window, medium_window, long_window)
Windows == {<<1, 2, 3>>, <<2, 3, 4>>}

NaNFrac == <<0, 0>>
IsNaN(a) == a[2] = 0
FracGt(a, b) == ~IsNaN(a) /\ ~IsNaN(b) /\ a[1] * b[2] > b[1] * a[2]
FracLt(a, b) == FracGt(b, a)
FracLe(a, b) == ~IsNaN(a) /\ ~IsNaN(b) /\ a[1] * b[2] <= b[1] * a[2]
FracSame(a, b) == IF IsNaN(a) \/ IsNaN(b) THEN IsNaN(a) /\ IsNaN(b) ELSE FracEq(a, b)

RECURSIVE SumRange(_, _, _)
\* s[a] + ... + s[b]
SumRange(s, a, b) == IF a > b THEN 0 ELSE s[b] + SumRange(s, a, b - 1)

\* df["close"].rolling(w).mean() at bar k: NaN on the first w - 1 bars
rolling_mean(close, w, k) ==
    IF k < w THEN NaNFrac ELSE <<SumRange(close, k - w + 1, k), w>>

short_ma(ws, close, k) == rolling_mean(close, ws[1], k)
medium_ma(ws, close, k) == rolling_mean(close, ws[2], k)
long_ma(ws, close, k) == rolling_mean(close, ws[3], k)

\* lines 38-40 with `>=` in place of `>` at line 39 and `<` at line 40
cross_signal_ge(ws, close, k) ==
    IF FracGt(short_ma(ws, close, k), long_ma(ws, close, k))
       \/ (~IsNaN(short_ma(ws, close, k)) /\ ~IsNaN(long_ma(ws, close, k))
           /\ FracEq(short_ma(ws, close, k), long_ma(ws, close, k)))
    THEN 1 ELSE 0

\* lines 38-40: the signal column after the moving-average cross.  Line 38
\* sets 0, line 39 sets 1 where short_ma > long_ma, line 40 sets 0 where
\* short_ma <= long_ma; a NaN on either side leaves line 38's 0.
cross_signal(ws, close, k) ==
    LET after39 == IF FracGt(short_ma(ws, close, k), long_ma(ws, close, k)) THEN 1 ELSE 0
    IN  IF FracLe(short_ma(ws, close, k), long_ma(ws, close, k)) THEN 0 ELSE after39

\* line 43: short_ma - medium_ma, NaN when either is
diff_5_10(ws, close, k) ==
    LET a == short_ma(ws, close, k)
        b == medium_ma(ws, close, k)
    IN  IF IsNaN(a) \/ IsNaN(b) THEN NaNFrac
        ELSE <<a[1] * b[2] - b[1] * a[2], a[2] * b[2]>>

\* line 47: np.where(diff_5_10 > 0, 1, -1)
diff_sign(ws, close, k) == IF FracGt(diff_5_10(ws, close, k), Frac(0)) THEN 1 ELSE -1

\* lines 51-54: sign_change < 0 at bar k; the shifted sign of bar 1 is NaN
sign_flips(ws, close, k) ==
    k > 1 /\ diff_sign(ws, close, k) * diff_sign(ws, close, k - 1) < 0

RECURSIVE wave_id(_, _, _)
\* line 54: (sign_change < 0).cumsum()
wave_id(ws, close, k) ==
    IF k = 0 THEN 0
    ELSE wave_id(ws, close, k - 1) + (IF sign_flips(ws, close, k) THEN 1 ELSE 0)

\* The bars of the group of wave g in df.groupby("wave_id").
WaveBars(ws, close, g) == {j \in 1 .. Len(close) : wave_id(ws, close, j) = g}

RECURSIVE SumDiff(_, _, _)
\* x.sum() of line 60 over the bars B: the numerators of the diff_5_10 values
\* that are not NaN (they share the denominator short_window * medium_window);
\* pandas' sum skips NaN.
SumDiff(ws, close, B) ==
    IF B = {} THEN 0
    ELSE LET j == CHOOSE b \in B : TRUE
             d == diff_5_10(ws, close, j)
         IN  (IF IsNaN(d) THEN 0 ELSE d[1]) + SumDiff(ws, close, B \ {j})

\* lines 58-62: x.sum() / max(len(x), 1) of wave g; len counts every bar of
\* the group, NaN or not.
wave_strength(ws, close, g) ==
    LET B == WaveBars(ws, close, g)
    IN  <<SumDiff(ws, close, B), ws[1] * ws[2] * Max(Cardinality(B), 1)>>

\* line 64: the merge gives every bar the strength of its wave
wave_strength_col(ws, close, k) == wave_strength(ws, close, wave_id(ws, close, k))

\* line 67: df["wave_strength"].shift(1), the value of the row before
prev_wave_strength(ws, close, k) ==
    IF k = 1 THEN NaNFrac ELSE wave_strength_col(ws, close, k - 1)

\* lines 72-76 with `>` in place of `<` at line 75
condition_weaker_reversed(ws, close, k) ==
    /\ cross_signal(ws, close, k) = 1
    /\ diff_sign(ws, close, k) = 1
    /\ FracGt(wave_strength_col(ws, close, k), prev_wave_strength(ws, close, k))

\* lines 72-76
condition_weaker(ws, close, k) ==
    /\ cross_signal(ws, close, k) = 1
    /\ diff_sign(ws, close, k) = 1
    /\ FracLt(wave_strength_col(ws, close, k), prev_wave_strength(ws, close, k))

\* generate_signals(df): the rows of the frame it returns
generate_signals(ws, close) ==
    [ k \in 1 .. Len(close) |->
        [ short_ma           |-> short_ma(ws, close, k),
          medium_ma          |-> medium_ma(ws, close, k),
          long_ma            |-> long_ma(ws, close, k),
          cross              |-> cross_signal(ws, close, k),
          diff_5_10          |-> diff_5_10(ws, close, k),
          diff_sign          |-> diff_sign(ws, close, k),
          wave_id            |-> wave_id(ws, close, k),
          wave_strength      |-> wave_strength_col(ws, close, k),
          prev_wave_strength |-> prev_wave_strength(ws, close, k),
          signal             |-> IF condition_weaker(ws, close, k) THEN 0
                                 ELSE cross_signal(ws, close, k) ] ]

\* A strategy object is constructed; no engine and no fetcher exist.
InitSBX ==
    /\ engine = NewEngine
    /\ x = 0 /\ y = 0
    /\ leverage_list = <<>>
    /\ position_list = <<>>
    /\ MA13 = <<>>
    /\ pc = "absent"
    /\ i = 0
    /\ fills = <<>>
    /\ last = NoBar
    /\ marks = NoMarks
    /\ \E ws \in Windows :
          sbx = [stage |-> "input", windows |-> ws, close |-> <<>>, out |-> <<>>]
    /\ heap = EmptyHeap
    /\ fetcher = NoFetcher
    /\ snapshot = NoSnapshot

\* The caller adds a row to the frame it will hand over.
AppendBar ==
    /\ sbx.stage = "input"
    /\ Len(sbx.close) < MaxCloses
    /\ \E c \in Closes : sbx' = [sbx EXCEPT !.close = Append(@, c)]
    /\ UNCHANGED <<engineVars, fetchVars>>

\* The caller calls generate_signals on the frame.
GenerateSignals ==
    /\ sbx.stage = "input"
    /\ sbx' = [sbx EXCEPT !.stage = "done",
                          !.out = generate_signals(sbx.windows, sbx.close)]
    /\ UNCHANGED <<engineVars, fetchVars>>

NextSBX == AppendBar \/ GenerateSignals

SpecSBX == InitSBX /\ [][NextSBX]_vars

\* The strategy and the engine, each on its own.
SpecSignals == (Init \/ InitSBX) /\ [][Next \/ NextSBX]_vars

\* ----------------------------------------------- what the frame holds
Generated == sbx.stage = "done"
Bars == 1 .. Len(sbx.out)
\* Bar k is the first bar of its wave, and not of the first wave.
OpensWave(k) == k > 1 /\ sbx.out[k].wave_id # sbx.out[k - 1].wave_id
\* The strength of the bar's current wave is less than the strength of the
\* wave whose wave_id is one lower.
WeakerThanPrecedingWave(k) ==
    \E j \in Bars :
        /\ sbx.out[j].wave_id = sbx.out[k].wave_id - 1
        /\ FracLt(sbx.out[k].wave_strength, sbx.out[j].wave_strength)

PositiveDiff(k) == FracGt(sbx.out[k].diff_5_10, Frac(0))
\* The bars that share bar k's wave_id, and those of them with a diff_5_10.
SameWave(k) == {j \in Bars : sbx.out[j].wave_id = sbx.out[k].wave_id}
SameWaveDefined(k) == {j \in SameWave(k) : ~IsNaN(sbx.out[j].diff_5_10)}

RECURSIVE SumOfDiffs(_)
\* The sum of diff_5_10 over the bars B, all of them defined, in units of
\* 1 / (short_window * medium_window), the denominator they share.
SumOfDiffs(B) ==
    IF B = {} THEN 0
    ELSE LET j == CHOOSE b \in B : TRUE
         IN  sbx.out[j].diff_5_10[1] + SumOfDiffs(B \ {j})
\* The mean of diff_5_10 over the bars of bar k's wave.
MeanOfWave(k) ==
    LET B == SameWaveDefined(k)
    IN  <<SumOfDiffs(B), sbx.windows[1] * sbx.windows[2] * Cardinality(B)>>

\* C13: wave_id is 0 on the first bar, never decreases, and grows by exactly 1
\* on the bars whose diff_5_10 sign differs from the bar before; the bars of
\* one wave carry one wave_strength, the mean of diff_5_10 over those bars.
C13_WaveSegmentation ==
    Generated =>
        /\ Bars # {} => sbx.out[1].wave_id = 0
        /\ \A k \in Bars \ {1} :
              /\ sbx.out[k].wave_id >= sbx.out[k - 1].wave_id
              /\ sbx.out[k].wave_id - sbx.out[k - 1].wave_id =
                     (IF PositiveDiff(k) # PositiveDiff(k - 1) THEN 1 ELSE 0)
        /\ \A k \in Bars : \A j \in SameWave(k) :
              FracSame(sbx.out[j].wave_strength, sbx.out[k].wave_strength)
        /\ \A k \in Bars :
              SameWaveDefined(k) # {} =>
                  FracSame(sbx.out[k].wave_strength, MeanOfWave(k))

\* A moving average of bar k is undefined.
UndefinedMA(k) ==
    \/ IsNaN(sbx.out[k].short_ma)
    \/ IsNaN(sbx.out[k].medium_ma)
    \/ IsNaN(sbx.out[k].long_ma)
\* The fast and the slow moving average of bar k are defined and equal.
EqualMA(k) ==
    /\ ~IsNaN(sbx.out[k].short_ma)
    /\ ~IsNaN(sbx.out[k].long_ma)
    /\ FracEq(sbx.out[k].short_ma, sbx.out[k].long_ma)
\* The latest row of run was met flat with MA120 undefined or equal to MA13.
NoTrendRow ==
    /\ BarProcessed
    /\ last.pre.position = 0
    /\ (last.ma120 = NaN \/ last.ma13 = last.ma120)

\* C14: generate_signals emits signal 0 on every bar with an undefined moving
\* average and on every bar whose fast and slow averages are equal; a flat
\* row of run whose MA120 is undefined or equal to its MA13 resolves no
\* direction and opens no position.
C14_NoSignalWithoutTrend ==
    /\ Generated =>
          \A k \in Bars : (UndefinedMA(k) \/ EqualMA(k)) => sbx.out[k].signal = 0
    /\ NoTrendRow =>
          /\ last.event # "entry"
          /\ engine.direction = last.pre.direction
          /\ engine.position = 0
          /\ engine.open_signal[last.idx] = 0

\* C14's case: a frame with bars before the long window fills and a later
\* bar whose fast and slow averages are equal.
C14_Witness ==
    /\ Generated
    /\ \E k \in Bars : UndefinedMA(k) /\ sbx.out[k].signal = 0
    /\ \E k \in Bars : EqualMA(k) /\ sbx.out[k].signal = 0

C17_VolatilityGate ==
    (x <= OnePercent /\ fills = <<>> /\ pc \in {"running", "done", "raised"}) =>
        /\ pc # "raised"
        /\ engine = NewEngine
        /\ pc = "done" => last.idx = MaxBars - 1

(***************************************************************************)
(* OKXDataFetcher (src/getdata.py).                                        *)
(*                                                                         *)
(* A DataFrame is an object on `heap`, named by its id; self.df and the    *)
(* values get_cleaned_data and df.copy() return are ids (0 is None).  An   *)
(* in-place write changes the object's rows under every id that names it;  *)
(* an assignment to self.df names another object.  A row is its timestamp  *)
(* and its close; history rows (fetch_1m_data) have close 0 and live rows  *)
(* (fetch_latest_data) close 1, so a replaced row shows.                   *)
(*                                                                         *)
(* The responses of the API are arbitrary: an error code, an exception, an *)
(* empty data list, or well-formed rows with any timestamps.  A call of    *)
(* fetch_latest_data is two steps, the request and the update of self.df;  *)
(* once the thread of start_real_time_fetch runs, the main thread's        *)
(* get_cleaned_data and the engine's construction and run can come between *)
(* them.  A copy that runs while line 140 writes the last row returns the  *)
(* row as it was before or after the write: both orders are behaviours.    *)
(* The main thread fetches the history before it starts the thread and     *)
(* hands the frame to the engine after.                                    *)
(***************************************************************************)
\* Rows of one day: 1440 in the code (lines 27, 148-149), scaled down.
DayRows == 2
\* Rows of one request: 300 in the code (line 40), scaled down.
BatchLimit == 2
\* max_retries
MaxRetries == 3
\* The days argument of fetch_1m_data.
Days == {1}

Timestamps == 1 .. (DayRows + 1)
HistoryRows == [timestamp : Timestamps, close : {0}]
LiveRows == [timestamp : Timestamps, close : {1}]
\* The non-empty data lists a request with limit n can return.
Batches(n) == UNION {[1 .. m -> HistoryRows] : m \in 1 .. n}

\* The DataFrame objects that have a name.
Live == {fetcher.df, snapshot.data, snapshot.engine} \ {0}
\* The id of a new object: the least that names no object in `live`.  (The
\* frame self.df is rebound to takes the id of the frame it replaces, unless
\* another name still refers to that one.)
Fresh(live) == CHOOSE o \in ObjIds \ live : \A q \in ObjIds \ live : o <= q
\* An object no name refers to any more is gone.
Collect(h, live) == [o \in ObjIds |-> IF o \in live THEN h[o] ELSE <<>>]
\* The names other than self.df
Handed == {snapshot.data, snapshot.engine} \ {0}
\* self.df as a value
Buffer == [none |-> fetcher.df = 0, rows |-> IF fetcher.df = 0 THEN <<>> ELSE heap[fetcher.df]]

\* drop_duplicates(subset=["timestamp"]): the first row of each timestamp
\* stays, in the order of the frame
drop_duplicates(rows) ==
    LET keep == {k \in 1 .. Len(rows) :
                    \A j \in 1 .. (k - 1) : rows[j].timestamp # rows[k].timestamp}
        nth(n) == CHOOSE k \in keep : Cardinality({j \in keep : j <= k}) = n
    IN  [n \in 1 .. Cardinality(keep) |-> rows[nth(n)]]

\* sort_values("timestamp"): row k goes to the place that counts the rows
\* with a smaller timestamp, and the rows before it with the same one
sort_values(rows) ==
    LET place(k) == Cardinality({j \in 1 .. Len(rows) :
                        \/ rows[j].timestamp < rows[k].timestamp
                        \/ rows[j].timestamp = rows[k].timestamp /\ j <= k})
    IN  [n \in 1 .. Len(rows) |-> rows[CHOOSE k \in 1 .. Len(rows) : place(k) = n]]

\* total_limit = 1440 * days
total_limit(days) == DayRows * days

\* retry after a request, with line 67 missing: a batch leaves the count
retry_after_accumulates(retry, outcome) ==
    IF outcome \in {"error", "exception"} THEN retry + 1 ELSE retry

\* retry after a request: lines 48 and 71 count an error code and an
\* exception, line 67 resets the count after a non-empty batch
retry_after(retry, outcome) ==
    IF outcome \in {"error", "exception"} THEN retry + 1
    ELSE IF outcome = "batch" THEN 0
    ELSE retry

\* lines 75-94: the frame fetch_1m_data builds of all_data
build_frame(all_data) == sort_values(drop_duplicates(all_data))

\* lines 147-149 without sort_values
concat_latest_unsorted(rows, latest) ==
    LET merged == drop_duplicates(rows \o <<latest>>)
    IN  IF Len(merged) > DayRows
        THEN SubSeq(merged, Len(merged) - DayRows + 1, Len(merged))
        ELSE merged

\* lines 147-149: concat, drop_duplicates, sort_values, the last 1440 rows
concat_latest(rows, latest) ==
    LET merged == sort_values(drop_duplicates(rows \o <<latest>>))
    IN  IF Len(merged) > DayRows
        THEN SubSeq(merged, Len(merged) - DayRows + 1, Len(merged))
        ELSE merged

\* get_cleaned_data returning self.df itself
get_cleaned_data_no_copy(h, df, live) == [ret |-> df, heap |-> h]

\* get_cleaned_data: self.df.copy() if self.df is not None else None
get_cleaned_data(h, df, live) ==
    IF df = 0 THEN [ret |-> 0, heap |-> h]
    ELSE LET o == Fresh(live)
         IN  [ret |-> o, heap |-> [h EXCEPT ![o] = h[df]]]

\* lines 135-149 of fetch_latest_data with the one-row frame `latest`, the
\* names in `handed` being held outside the fetcher: the heap and self.df it
\* leaves, and which branch ran
update_latest(h, df, latest, handed) ==
    IF df # 0 /\ h[df] # <<>> /\ h[df][Len(h[df])].timestamp = latest.timestamp
    THEN [heap |-> [h EXCEPT ![df][Len(h[df])] = latest], df |-> df,
          outcome |-> "replaced"]
    ELSE LET o == Fresh(handed)
             rows == IF df = 0 \/ h[df] = <<>> THEN <<latest>>
                     ELSE concat_latest(h[df], latest)
         IN  [heap |-> Collect([h EXCEPT ![o] = rows], handed \cup {o}),
              df |-> o,
              outcome |-> IF df = 0 \/ h[df] = <<>> THEN "first" ELSE "appended"]

\* A fetcher object is constructed (self.df = None); no strategy exists, and
\* the engine is built only on what the fetcher hands over.
InitFetcher ==
    /\ engine = NewEngine
    /\ x = 0 /\ y = 0
    /\ leverage_list = <<>>
    /\ position_list = <<>>
    /\ MA13 = <<>>
    /\ pc = "absent"
    /\ i = 0
    /\ fills = <<>>
    /\ last = NoBar
    /\ marks = NoMarks
    /\ sbx = NoStrategy
    /\ heap = EmptyHeap
    /\ fetcher = [NoFetcher EXCEPT !.pc = "idle"]
    /\ snapshot = NoSnapshot

\* The main thread is in no call on the fetcher.
MainFree == fetcher.pc = "idle" /\ (fetcher.latest = <<>> \/ fetcher.thread)

\* fetch_1m_data(days), lines 27-31
Fetch1mStart ==
    /\ MainFree /\ ~fetcher.thread
    /\ \E days \in Days :
          fetcher' = [fetcher EXCEPT !.pc = "loop", !.all_data = <<>>,
                                     !.retry = 0, !.fails = 0]
    /\ UNCHANGED <<engineVars, sbx, heap, snapshot>>

\* One iteration of the while loop of line 35: `fails` counts the failed
\* requests since the last non-empty batch, `retry` is the code's counter.
Fetch1mRequest ==
    /\ fetcher.pc = "loop"
    /\ \E days \in Days :
          /\ Len(fetcher.all_data) < total_limit(days)
          /\ fetcher.retry < MaxRetries
          /\ \/ \E outcome \in {"error", "exception"} :
                   fetcher' = [fetcher EXCEPT
                                  !.retry = retry_after(@, outcome),
                                  !.fails = @ + 1]
             \/ fetcher' = [fetcher EXCEPT !.pc = "broke"]
             \/ \E batch \in Batches(Min(BatchLimit,
                                         total_limit(days) - Len(fetcher.all_data))) :
                   fetcher' = [fetcher EXCEPT
                                  !.all_data = @ \o batch,
                                  !.retry = retry_after(@, "batch"),
                                  !.fails = 0]
    /\ UNCHANGED <<engineVars, sbx, heap, snapshot>>

\* Why the loop is left: line 55's break, or line 35's condition
ExitReason(days) ==
    IF fetcher.pc = "broke" THEN "empty"
    ELSE IF Len(fetcher.all_data) >= total_limit(days) THEN "limit"
    ELSE "retries"

\* The loop is left and lines 75-102 build self.df of all_data, if any
Fetch1mFinish ==
    /\ \E days \in Days :
          /\ \/ fetcher.pc = "broke"
             \/ /\ fetcher.pc = "loop"
                /\ ~(Len(fetcher.all_data) < total_limit(days)
                     /\ fetcher.retry < MaxRetries)
          /\ LET o == Fresh(Handed)
                 built == fetcher.all_data # <<>>
             IN  /\ fetcher' = [fetcher EXCEPT
                        !.pc = "idle",
                        !.df = IF built THEN o ELSE @,
                        !.all_data = <<>>,
                        !.retry = 0,
                        !.fails = 0,
                        !.lastop = [op |-> "fetch_1m_data", outcome |-> ExitReason(days),
                                    row |-> <<>>,
                                    pre |-> IF built THEN NoPre ELSE Buffer,
                                    count |-> Len(fetcher.all_data),
                                    fails |-> fetcher.fails]]
                 /\ heap' = IF built
                            THEN Collect([heap EXCEPT ![o] = build_frame(fetcher.all_data)],
                                         Handed \cup {o})
                            ELSE heap
    /\ UNCHANGED <<engineVars, sbx, snapshot>>

\* fetch_latest_data, lines 108-122: the request.  An error code returns, an
\* empty data list raises IndexError at line 119 and an exception of the
\* request is caught at line 155: self.df is not touched.
FetchLatestRequest ==
    /\ fetcher.pc = "idle"
    /\ fetcher.latest = <<>>
    /\ \/ \E outcome \in {"error", "exception", "empty"} :
             fetcher' = [fetcher EXCEPT
                            !.lastop = [op |-> "fetch_latest_data", outcome |-> "failed",
                                        row |-> <<>>, pre |-> Buffer,
                                        count |-> 0, fails |-> 0]]
       \/ \E latest \in LiveRows : fetcher' = [fetcher EXCEPT !.latest = <<latest>>]
    /\ UNCHANGED <<engineVars, sbx, heap, snapshot>>

\* fetch_latest_data, lines 135-149: the update of self.df
FetchLatestUpdate ==
    /\ fetcher.latest # <<>>
    /\ LET u == update_latest(heap, fetcher.df, fetcher.latest[1], Handed)
       IN  /\ heap' = u.heap
           /\ fetcher' = [fetcher EXCEPT
                  !.df = u.df,
                  !.latest = <<>>,
                  !.lastop = [op |-> "fetch_latest_data", outcome |-> u.outcome,
                              row |-> IF u.outcome = "replaced" THEN fetcher.latest ELSE <<>>,
                              pre |-> IF u.outcome = "replaced" THEN Buffer ELSE NoPre,
                              count |-> 0, fails |-> 0]]
    /\ UNCHANGED <<engineVars, sbx, snapshot>>

\* start_real_time_fetch: from now on the thread makes the fetch_latest_data calls
StartRealTimeFetch ==
    /\ MainFree /\ ~fetcher.thread
    /\ fetcher' = [fetcher EXCEPT !.thread = TRUE]
    /\ UNCHANGED <<engineVars, sbx, heap, snapshot>>

\* The main thread calls get_cleaned_data for the frame it hands to the engine.
GetCleanedData ==
    /\ MainFree /\ fetcher.thread
    /\ snapshot.data = 0
    /\ LET g == get_cleaned_data(heap, fetcher.df, Live)
       IN  /\ g.ret # 0
           /\ heap' = g.heap
           /\ snapshot' = [snapshot EXCEPT !.data = g.ret, !.taken = g.heap[g.ret]]
    /\ UNCHANGED <<engineVars, sbx, fetcher>>

\* MartingaleStrategy(df, ...) on the frame: self.df = df.copy()
EngineInit ==
    /\ MainFree
    /\ snapshot.data # 0
    /\ snapshot.engine = 0
    /\ LET o == Fresh(Live)
       IN  /\ heap' = [heap EXCEPT ![o] = heap[snapshot.data]]
           /\ snapshot' = [snapshot EXCEPT !.engine = o, !.built = heap[snapshot.data]]
    /\ UNCHANGED <<engineVars, sbx, fetcher>>

\* run's loop reads the next row of the engine's frame
EngineReadRow ==
    /\ MainFree
    /\ snapshot.engine # 0
    /\ snapshot.i < Len(heap[snapshot.engine])
    /\ snapshot' = [snapshot EXCEPT !.i = @ + 1]
    /\ UNCHANGED <<engineVars, sbx, heap, fetcher>>

NextFetchLoop == Fetch1mStart \/ Fetch1mRequest \/ Fetch1mFinish

NextFetcher ==
    \/ NextFetchLoop
    \/ FetchLatestRequest
    \/ FetchLatestUpdate
    \/ StartRealTimeFetch
    \/ GetCleanedData
    \/ EngineInit
    \/ EngineReadRow

SpecFetcher == InitFetcher /\ [][NextFetcher]_vars

\* fetch_1m_data alone.  The main thread runs the call: an enabled iteration
\* of the loop, and the exit from it, is eventually taken.
SpecFetchLoop ==
    /\ InitFetcher
    /\ [][NextFetchLoop]_vars
    /\ WF_vars(Fetch1mRequest)
    /\ WF_vars(Fetch1mFinish)

\* ------------------------------------------------ the fetcher's claims
\* The last call that finished was a fetch_1m_data that left its loop by `why`.
FetchEndedBy(why) == fetcher.lastop.op = "fetch_1m_data" /\ fetcher.lastop.outcome = why

\* In the loop retry is the number of failed requests since the last
\* non-empty batch, and a call that finished left the loop with total_limit
\* rows, on an empty batch, or after MaxRetries failures in a row.
FetchLoopSafe ==
    \A days \in Days :
        /\ fetcher.pc = "loop" =>
              /\ fetcher.retry = fetcher.fails
              /\ fetcher.retry <= MaxRetries
              /\ Len(fetcher.all_data) <= total_limit(days)
        /\ FetchEndedBy("limit") => fetcher.lastop.count = total_limit(days)
        /\ FetchEndedBy("retries") =>
              /\ fetcher.lastop.fails = MaxRetries
              /\ fetcher.lastop.count < total_limit(days)
        /\ FetchEndedBy("empty") =>
              /\ fetcher.lastop.fails < MaxRetries
              /\ fetcher.lastop.count < total_limit(days)

\* C18: every call of fetch_1m_data returns, whatever the API answers; its
\* loop ends with total_limit rows, on an empty batch or after 3 failed
\* requests in a row, a non-empty batch resetting the failure count.
C18_FetchTerminates ==
    /\ []FetchLoopSafe
    /\ (fetcher.pc \in {"loop", "broke"}) ~> (fetcher.pc = "idle")

\* C18's case: a call gave up after 3 failures in a row that followed a
\* non-empty batch.
C18_Witness == FetchEndedBy("retries") /\ fetcher.lastop.count > 0

StrictlyIncreasing(rows) ==
    \A j \in 1 .. (Len(rows) - 1) : rows[j].timestamp < rows[j + 1].timestamp

\* C19: self.df, when not None, has strictly increasing timestamps; a latest
\* bar with the last buffered timestamp replaces the last row and keeps the
\* row count; a failed or empty fetch leaves self.df as it was.
C19_BufferOrdered ==
    /\ fetcher.df # 0 => StrictlyIncreasing(heap[fetcher.df])
    /\ fetcher.lastop.outcome = "replaced" =>
          LET before == fetcher.lastop.pre.rows
              now == Buffer.rows
          IN  /\ Len(now) = Len(before)
              /\ now[Len(now)] = fetcher.lastop.row[1]
              /\ before[Len(before)].timestamp = fetcher.lastop.row[1].timestamp
              /\ SubSeq(now, 1, Len(now) - 1) = SubSeq(before, 1, Len(before) - 1)
    /\ (fetcher.lastop.outcome = "failed"
           \/ (fetcher.lastop.op = "fetch_1m_data" /\ fetcher.lastop.count = 0)) =>
          Buffer = fetcher.lastop.pre

\* C19's case: a latest bar replaced the last of two history rows.
C19_Witness ==
    /\ fetcher.lastop.outcome = "replaced"
    /\ Len(Buffer.rows) = DayRows
    /\ fetcher.lastop.pre.rows[DayRows].close = 0
    /\ Buffer.rows[DayRows].close = 1

\* C20: the frame get_cleaned_data returned and the engine's copy of it stay
\* as they were when they were made, whatever the thread fetches afterwards.
C20_SnapshotStable ==
    /\ snapshot.data # 0 => heap[snapshot.data] = snapshot.taken
    /\ snapshot.engine # 0 =>
          /\ heap[snapshot.engine] = snapshot.built
          /\ snapshot.built = snapshot.taken

\* C20's case: after the hand-over the thread replaced the last row of
\* self.df in place, while run is reading the engine's frame.
C20_Witness ==
    /\ snapshot.engine # 0
    /\ snapshot.i > 0
    /\ fetcher.thread
    /\ fetcher.lastop.outcome = "replaced"
    /\ fetcher.lastop.pre.rows = snapshot.taken
    /\ Buffer.rows # snapshot.taken
====
